---- MODULE Spec2Model ----
(***************************************************************************)
(* A model of the terminal dashboard of src/app/vis.go: the model struct   *)
(* the bubbletea event loop owns (panes, focus, output viewport), the copy *)
(* of it that model.Init hands to the connect and reader goroutines, the   *)
(* two TCP connections and the mutex.                                      *)
(*                                                                         *)
(* Text is a sequence of tokens; the token NL is the newline byte and      *)
(* every other token stands for a run of bytes holding no newline.         *)
(***************************************************************************)
EXTENDS Integers, Sequences, FiniteSets, TLC

\* ------------------------------------------------------------------ bounds
\* How many lines the server sends on port 9002 before the model stops it.
MaxReads == 2
\* How many space keys the user presses before the model stops them.
MaxSpace == 2
\* How many distinct ordinary values are added to and removed from a Set.
NumValues == 4
\* How many entries the model lets a Set's map hold under the key NaN.
MaxNaNEntries == 2

\* ------------------------------------------------------- program constants
NL == "\n"
Welcome == "Welcome to the TUI!"
\* "\nError sending command: " + err.Error()
ErrorText == <<NL, "Error sending command: ", "write failed">>
ExitLabel == "Exit"

\* initialModel: the item lists of the four panes, in order.
PaneItems ==
  << <<"Option A", "Option B", "Option C">>,
     <<"Option X", "Option Y", "Option Z">>,
     <<"Cmd 1", "Cmd 2", "Cmd 3", "Exit">>,
     <<"Opt 1", "Opt 2", "Opt 3">> >>
PaneTitles == <<"Pane 1", "Pane 2", "Commands", "Pane 4">>
PaneIsMenu == <<TRUE, TRUE, FALSE, TRUE>>

\* len(m.topPanes)
N == Len(PaneItems)
PaneIdx == 0 .. (N - 1)

\* The window sizes the terminal reports (WindowSizeMsg).
Sizes == {<<80, 24>>, <<40, 7>>}
\* The lines the server may send on port 9002 (each ends with a newline).
Messages == {<<"a", NL>>, <<"b", NL>>}

Min(a, b) == IF a < b THEN a ELSE b
Max(a, b) == IF a > b THEN a ELSE b

\* ------------------------------------------------------------- text, viewport
RECURSIVE Split(_)
\* strings.Split(s, "\n"): the lines of a text, at least one.
Split(s) ==
  IF \A i \in 1 .. Len(s) : s[i] # NL
  THEN <<s>>
  ELSE LET k == CHOOSE i \in 1 .. Len(s) :
                  s[i] = NL /\ \A j \in 1 .. (i - 1) : s[j] # NL
       IN <<SubSeq(s, 1, k - 1)>> \o Split(SubSeq(s, k + 1, Len(s)))

RECURSIVE Join(_)
\* strings.Join(lines, "\n")
Join(ls) ==
  IF Len(ls) = 0 THEN <<>>
  ELSE IF Len(ls) = 1 THEN ls[1]
  ELSE ls[1] \o <<NL>> \o Join(Tail(ls))

RECURSIVE Repeat(_, _)
\* strings.Repeat(tok, n)
Repeat(tok, n) == IF n <= 0 THEN <<>> ELSE <<tok>> \o Repeat(tok, n - 1)

\* viewport.New(width, height)
NewViewport(w, h) == [lines |-> <<>>, Width |-> w, Height |-> h, YOffset |-> 0]

\* viewport: the largest YOffset
MaxYOffset(vp) == Max(0, Len(vp.lines) - vp.Height)

\* viewport: the lines in the window [YOffset, YOffset + Height)
VisibleLines(vp) ==
  IF Len(vp.lines) = 0 THEN <<>>
  ELSE LET top == Max(0, vp.YOffset)
           bottom == Max(top, Min(vp.YOffset + vp.Height, Len(vp.lines)))
       IN SubSeq(vp.lines, top + 1, bottom)

\* m.outputPane.View(): the window's lines joined, padded with newlines to
\* Height lines. It is the window, not the whole content.
ViewportView(vp) ==
  LET ls == VisibleLines(vp)
  IN Join(ls) \o Repeat(NL, vp.Height - Len(ls))

\* m.outputPane.SetContent(s)
SetContent(vp, s) ==
  LET ls == Split(s)
      v == [vp EXCEPT !.lines = ls]
  IN IF vp.YOffset > Len(ls) - 1
     THEN [v EXCEPT !.YOffset = MaxYOffset(v)]
     ELSE v

\* m.outputPane.SetContent(m.outputPane.View() + txt)
AppendTextReplacing(vp, txt) == SetContent(vp, txt)
AppendText(vp, txt) == SetContent(vp, ViewportView(vp) \o txt)

\* m.outputPane.Update(msg) for a key: up and down scroll one line.
ViewportUpdate(vp, key) ==
  IF key = "down"
  THEN IF vp.YOffset >= MaxYOffset(vp) \/ Len(vp.lines) = 0 THEN vp
       ELSE [vp EXCEPT !.YOffset = Min(Max(vp.YOffset + 1, 0), MaxYOffset(vp))]
  ELSE IF key = "up"
  THEN IF vp.YOffset <= 0 THEN vp
       ELSE [vp EXCEPT !.YOffset = Min(Max(vp.YOffset - 1, 0), MaxYOffset(vp))]
  ELSE vp

\* ------------------------------------------------------------------ list panes
\* createList(title, items, 10, focused) wrapped in a pane: list.New(itemList,
\* delegate, 20, listHeight), every menuItem unselected, the cursor on item 0.
NewPane(i, focused) ==
  [ title |-> PaneTitles[i + 1],
    isMenu |-> PaneIsMenu[i + 1],
    focused |-> focused,
    labels |-> PaneItems[i + 1],
    selected |-> [k \in 1 .. Len(PaneItems[i + 1]) |-> FALSE],
    index |-> 0,
    width |-> 20,
    height |-> Min(Len(PaneItems[i + 1]), 10),
    delegateFocused |-> focused ]

\* initialModel(): pane 0 focused, the output viewport holding the welcome
\* text, no connection, no dimensions.
InitialModel ==
  [ focusIndex |-> 0,
    topPanes |-> [i \in PaneIdx |-> NewPane(i, i = 0)],
    outputPane |-> SetContent(NewViewport(100, 20), <<Welcome>>),
    outputPaneFocused |-> FALSE,
    conn9001 |-> "nil",
    conn9002 |-> "nil",
    width |-> 0,
    height |-> 0 ]

\* items.Update(msg) of a list: up and down move the cursor, which stops at
\* the first and at the last item; no other key of the model's moves it.
ListUpdateUnclamped(p, key) ==
  IF key = "up" THEN [p EXCEPT !.index = Max(p.index - 1, 0)]
  ELSE IF key = "down" THEN [p EXCEPT !.index = p.index + 1]
  ELSE p
ListUpdate(p, key) ==
  IF key = "up" THEN [p EXCEPT !.index = Max(p.index - 1, 0)]
  ELSE IF key = "down"
  THEN [p EXCEPT !.index = Min(p.index + 1, Max(Len(p.labels) - 1, 0))]
  ELSE p

\* What Update returns, and what it did on the way: the model, the command
\* (tea.Quit or nil), the bytes written on conn9001, and whether it panicked.
Result(m, cmd, wrote) == [model |-> m, cmd |-> cmd, wrote |-> wrote, panic |-> FALSE]
Panic(m) == [model |-> m, cmd |-> "nil", wrote |-> <<>>, panic |-> TRUE]

\* Update's last block: the message goes to the focused component.
UpdateFocused(m, key) ==
  IF m.focusIndex < N
  THEN Result([m EXCEPT !.topPanes[m.focusIndex] = ListUpdate(@, key)], "nil", <<>>)
  ELSE Result([m EXCEPT !.outputPane = ViewportUpdate(@, key)], "nil", <<>>)

\* case tea.WindowSizeMsg
UpdateResizeKeepingTaller(m, w, h) ==
  LET paneHeight == (h \div 2) - 2
      m1 == [m EXCEPT
               !.width = w,
               !.height = h,
               !.topPanes = [i \in PaneIdx |->
                  [m.topPanes[i] EXCEPT
                     !.height = IF Len(m.topPanes[i].labels) < paneHeight
                                THEN Len(m.topPanes[i].labels)
                                ELSE paneHeight]],
               !.outputPane.Width = w - 2,
               !.outputPane.Height = Max(m.outputPane.Height, h \div 2)]
  IN UpdateFocused(m1, "resize")
UpdateResize(m, w, h) ==
  LET paneHeight == (h \div 2) - 2
      m1 == [m EXCEPT
               !.width = w,
               !.height = h,
               !.topPanes = [i \in PaneIdx |->
                  [m.topPanes[i] EXCEPT
                     !.height = IF Len(m.topPanes[i].labels) < paneHeight
                                THEN Len(m.topPanes[i].labels)
                                ELSE paneHeight]],
               !.outputPane.Width = w - 2,
               !.outputPane.Height = h \div 2]
  IN UpdateFocused(m1, "resize")

\* The focus index after a tab.
NextFocusIndexSkippingOutput(fi) == (fi + 1) % N
NextFocusIndex(fi) == (fi + 1) % (N + 1)

\* m.updatePaneDelegates()
UpdatePaneDelegatesStale(m) == m
UpdatePaneDelegates(m) ==
  [m EXCEPT !.topPanes = [i \in PaneIdx |->
     [m.topPanes[i] EXCEPT !.delegateFocused = (i = m.focusIndex)]]]

\* The focus flags after the focus moved from prev to m.focusIndex.
SetFocusFlagsKeepingPrevious(m, prev) ==
  IF m.focusIndex < N
  THEN [m EXCEPT !.topPanes[m.focusIndex].focused = TRUE]
  ELSE [m EXCEPT !.outputPaneFocused = TRUE]
SetFocusFlags(m, prev) ==
  LET m1 == IF prev < N
            THEN [m EXCEPT !.topPanes[prev].focused = FALSE]
            ELSE [m EXCEPT !.outputPaneFocused = FALSE]
  IN IF m1.focusIndex < N
     THEN [m1 EXCEPT !.topPanes[m1.focusIndex].focused = TRUE]
     ELSE [m1 EXCEPT !.outputPaneFocused = TRUE]

\* case "tab"
UpdateTab(m) ==
  LET prev == m.focusIndex
      m1 == [m EXCEPT !.focusIndex = NextFocusIndex(prev)]
  IN UpdateFocused(UpdatePaneDelegates(SetFocusFlags(m1, prev)), "tab")

\* case " ": the toggle is guarded by focusIndex < len(topPanes); the
\* m.topPanes[m.focusIndex] after it is not.
UpdateSpaceAnyPane(m) ==
  LET m1 == IF m.focusIndex < N
            THEN [m EXCEPT !.topPanes[m.focusIndex].selected[
                             m.topPanes[m.focusIndex].index + 1] = ~@]
            ELSE m
  IN IF m.focusIndex \in PaneIdx
     THEN Result([m1 EXCEPT !.topPanes[m.focusIndex] = ListUpdate(@, " ")], "nil", <<>>)
     ELSE Panic(m1)
UpdateSpaceSetting(m) ==
  LET m1 == IF m.focusIndex < N /\ m.topPanes[m.focusIndex].isMenu
            THEN [m EXCEPT !.topPanes[m.focusIndex].selected[
                             m.topPanes[m.focusIndex].index + 1] = TRUE]
            ELSE m
  IN IF m.focusIndex \in PaneIdx
     THEN Result([m1 EXCEPT !.topPanes[m.focusIndex] = ListUpdate(@, " ")], "nil", <<>>)
     ELSE Panic(m1)
UpdateSpace(m) ==
  LET m1 == IF m.focusIndex < N /\ m.topPanes[m.focusIndex].isMenu
            THEN [m EXCEPT !.topPanes[m.focusIndex].selected[
                             m.topPanes[m.focusIndex].index + 1] = ~@]
            ELSE m
  IN IF m.focusIndex \in PaneIdx
     THEN Result([m1 EXCEPT !.topPanes[m.focusIndex] = ListUpdate(@, " ")], "nil", <<>>)
     ELSE Panic(m1)

\* case "up", "down"
UpdateUpDownAllPanes(m, key) ==
  IF m.focusIndex < N
  THEN Result([m EXCEPT !.topPanes = [i \in PaneIdx |-> ListUpdate(m.topPanes[i], key)]],
              "nil", <<>>)
  ELSE IF m.outputPaneFocused
  THEN Result([m EXCEPT !.outputPane = ViewportUpdate(@, key)], "nil", <<>>)
  ELSE UpdateFocused(m, key)
UpdateUpDown(m, key) ==
  IF m.focusIndex < N
  THEN Result([m EXCEPT !.topPanes[m.focusIndex] = ListUpdate(@, key)], "nil", <<>>)
  ELSE IF m.outputPaneFocused
  THEN Result([m EXCEPT !.outputPane = ViewportUpdate(@, key)], "nil", <<>>)
  ELSE UpdateFocused(m, key)

\* customDelegate.Render: the rows of a pane that get the cursor marker ">"
CursorRows(p) ==
  {i \in 0 .. (Len(p.labels) - 1) : i = p.index /\ p.delegateFocused}

\* The label under the cursor of pane i: Items()[Index()].FilterValue()
CurrentLabel(m, i) == m.topPanes[i].labels[m.topPanes[i].index + 1]

\* Whether enter quits: the command under the cursor is "Exit".
IsExitLowercase(command) == command = "exit"
IsExit(command) == command = ExitLabel

\* case "enter"; writeOk is whether conn9001.Write succeeds.
UpdateEnter(m, writeOk) ==
  IF m.focusIndex < N /\ ~m.topPanes[m.focusIndex].isMenu
  THEN LET command == CurrentLabel(m, m.focusIndex)
       IN IF IsExit(command)
          THEN Result(m, "Quit", <<>>)
          ELSE IF m.conn9001 # "nil"
          THEN IF writeOk
               THEN LET r == UpdateFocused(m, "enter")
                    IN [r EXCEPT !.wrote = <<command, NL>>]
               ELSE UpdateFocused(
                      [m EXCEPT !.outputPane = AppendText(@, ErrorText)], "enter")
          ELSE UpdateFocused(m, "enter")
  ELSE UpdateFocused(m, "enter")

\* case "q"
UpdateQForwarding(m) == UpdateFocused(m, "q")
UpdateQ(m) == Result(m, "Quit", <<>>)

\* any other key
UpdateOther(m) == UpdateFocused(m, "other")

\* ------------------------------------------------------------------------ state
VARIABLES
  m,        \* the model the event loop holds (Update returns it, View reads it)
  status,   \* "running", "quit" (tea.Quit was returned) or "panicked"
  bg,       \* the copy of the model that is Init's receiver: the connect and
            \* reader goroutines work on this copy and on nothing else
  pc,       \* where Init's goroutines and the render pass are
  mu,       \* who holds bg.mu: "free" or "reader"
  message,  \* listenToServer's local message
  nReads,   \* how many lines listenToServer has read
  wire,     \* the bytes written on the connection to port 9001, in order
  dialed,   \* the ports connectToServer has dialed, in order
  appended, \* the lines listenToServer has appended, in order
  nSpace,   \* how many space keys the event loop has handled
  shown,    \* the last render pass: its output text, and how many lines the
            \* reader had appended when it began
  data,     \* Set.data of one Set: for each key, how many entries of the map
            \* were stored under it
  lastCall  \* for each value, the last call made on the Set with it:
            \* "Add", "Remove" or "none"

vars == <<m, status, bg, pc, mu, message, nReads, wire, dialed, appended, nSpace,
          shown, data, lastCall>>

setVars == <<data, lastCall>>

netVars == <<bg, mu, message, nReads, dialed, appended>>

\* The values a Set[float64] is used with: ordinary numbers, each equal to
\* itself, and NaN, which T comparable admits and which equals nothing.
Values == 1 .. NumValues
NaN == NumValues + 1
Keys == Values \cup {NaN}

\* The == of the key type, which the map's lookup, store and delete use.
KeyEq(a, b) == a = b /\ a # NaN

\* NewSet(): an empty map
NewSet == [k \in Keys |-> 0]

\* Set.Contains: _, exists := s.data[value]
SetContains(d, value) == \E k \in Keys : d[k] > 0 /\ KeyEq(k, value)

\* Set.Add: s.data[value] = struct{}{} overwrites the entry whose key equals
\* value, and stores a new entry when there is none.
SetAdd(d, value) ==
  IF SetContains(d, value) THEN d ELSE [d EXCEPT ![value] = @ + 1]

\* Set.Remove: delete(s.data, value) drops the entry whose key equals value.
SetRemove(d, value) == [k \in Keys |-> IF KeyEq(k, value) THEN 0 ELSE d[k]]

Init ==
  /\ m = InitialModel
  /\ status = "running"
  /\ bg = [conn9001 |-> "nil", conn9002 |-> "nil",
           outputPane |-> InitialModel.outputPane, width |-> 0, height |-> 0]
  /\ pc = [connect |-> "notStarted", reader |-> "none", render |-> "idle"]
  /\ mu = "free"
  /\ message = <<>>
  /\ nReads = 0
  /\ wire = <<>>
  /\ dialed = <<>>
  /\ appended = <<>>
  /\ nSpace = 0
  /\ shown = [valid |-> FALSE, text |-> <<>>, after |-> 0]
  /\ data = NewSet
  /\ lastCall = [v \in Keys |-> "none"]

\* The event loop is between two messages: the program runs, Init has
\* returned and no render pass is under way.
LoopIdle ==
  /\ status = "running"
  /\ pc.connect # "notStarted"
  /\ pc.render = "idle"

\* model.Init(): its receiver is a copy of the program's model. The copy gets
\* the default dimensions; the list widths are set through the pane slice,
\* which the copy shares with the program's model; connectToServer is started
\* on the copy.
ProgramInit ==
  /\ status = "running"
  /\ pc.connect = "notStarted"
  /\ m' = [m EXCEPT !.topPanes = [i \in PaneIdx |->
                      [m.topPanes[i] EXCEPT !.width = (80 \div 4) - 2]]]
  /\ bg' = [bg EXCEPT !.width = 80, !.height = 24,
                      !.outputPane.Width = 80 - 2,
                      !.outputPane.Height = 24 \div 2]
  /\ pc' = [pc EXCEPT !.connect = "dial9001"]
  /\ UNCHANGED <<status, mu, message, nReads, wire, dialed, appended, nSpace, shown>>
  /\ UNCHANGED setVars

\* The event loop handles one message: r is what Update did with it.
Handle(r) ==
  /\ IF r.panic
     THEN /\ status' = "panicked"
          /\ UNCHANGED <<m, wire>>
     ELSE /\ m' = r.model
          /\ wire' = wire \o r.wrote
          /\ status' = IF r.cmd = "Quit" THEN "quit" ELSE status
  /\ UNCHANGED <<pc, shown>>
  /\ UNCHANGED netVars
  /\ UNCHANGED setVars

Resize ==
  /\ LoopIdle
  /\ \E sz \in Sizes : Handle(UpdateResize(m, sz[1], sz[2]))
  /\ UNCHANGED nSpace

KeyTab == LoopIdle /\ Handle(UpdateTab(m)) /\ UNCHANGED nSpace

KeySpace ==
  /\ LoopIdle
  /\ nSpace < MaxSpace
  /\ Handle(UpdateSpace(m))
  /\ nSpace' = nSpace + 1

KeyUp == LoopIdle /\ Handle(UpdateUpDown(m, "up")) /\ UNCHANGED nSpace

KeyDown == LoopIdle /\ Handle(UpdateUpDown(m, "down")) /\ UNCHANGED nSpace

KeyEnter ==
  /\ LoopIdle
  /\ \E writeOk \in BOOLEAN : Handle(UpdateEnter(m, writeOk))
  /\ UNCHANGED nSpace

KeyQ == LoopIdle /\ Handle(UpdateQ(m)) /\ UNCHANGED nSpace

KeyOther == LoopIdle /\ Handle(UpdateOther(m)) /\ UNCHANGED nSpace

\* The event loop with the keyboard and the terminal as its only inputs.
Next ==
  \/ ProgramInit
  \/ Resize
  \/ KeyTab
  \/ KeySpace
  \/ KeyUp
  \/ KeyDown
  \/ KeyEnter
  \/ KeyQ
  \/ KeyOther

Spec == Init /\ [][Next]_vars

\* ------------------------------------------------- connectToServer, on the copy
\* Where connectToServer goes after dialing port 9001: on to port 9002,
\* whether or not the dial failed (the error is printed, nothing returns).
AfterDial9001(ok) == "dial9002"

\* m.conn9001, err = net.Dial("tcp", port9001)
Dial9001 ==
  /\ status = "running"
  /\ pc.connect = "dial9001"
  /\ \E ok \in BOOLEAN :
       /\ bg' = [bg EXCEPT !.conn9001 = IF ok THEN "open" ELSE "nil"]
       /\ pc' = [pc EXCEPT !.connect = AfterDial9001(ok)]
  /\ dialed' = Append(dialed, "9001")
  /\ UNCHANGED <<m, status, mu, message, nReads, wire, appended, nSpace, shown>>
  /\ UNCHANGED setVars

\* m.conn9002, err = net.Dial("tcp", port9002); on an error connectToServer
\* returns, otherwise it starts listenToServer.
Dial9002StartingAlways ==
  /\ status = "running"
  /\ pc.connect = "dial9002"
  /\ \E ok \in BOOLEAN :
       /\ bg' = [bg EXCEPT !.conn9002 = IF ok THEN "open" ELSE "nil"]
       /\ pc' = [pc EXCEPT !.connect = "done", !.reader = "reading"]
  /\ dialed' = Append(dialed, "9002")
  /\ UNCHANGED <<m, status, mu, message, nReads, wire, appended, nSpace, shown>>
  /\ UNCHANGED setVars
Dial9002 ==
  /\ status = "running"
  /\ pc.connect = "dial9002"
  /\ \E ok \in BOOLEAN :
       /\ bg' = [bg EXCEPT !.conn9002 = IF ok THEN "open" ELSE "nil"]
       /\ pc' = [pc EXCEPT !.connect = "done",
                           !.reader = IF ok THEN "reading" ELSE @]
  /\ dialed' = Append(dialed, "9002")
  /\ UNCHANGED <<m, status, mu, message, nReads, wire, appended, nSpace, shown>>
  /\ UNCHANGED setVars

\* --------------------------------------------------- listenToServer, on the copy
\* reader.ReadString('\n') returns a whole line.
ReaderRead ==
  /\ status = "running"
  /\ pc.reader = "reading"
  /\ nReads < MaxReads
  /\ \E msg \in Messages : message' = msg
  /\ nReads' = nReads + 1
  /\ pc' = [pc EXCEPT !.reader = "locking"]
  /\ UNCHANGED <<m, status, bg, mu, wire, dialed, appended, nSpace, shown>>
  /\ UNCHANGED setVars

\* reader.ReadString('\n') returns an error (the peer closed, or the read
\* failed): listenToServer returns.
ReaderStop ==
  /\ status = "running"
  /\ pc.reader = "reading"
  /\ pc' = [pc EXCEPT !.reader = "stopped"]
  /\ UNCHANGED <<m, status, bg, mu, message, nReads, wire, dialed, appended, nSpace, shown>>
  /\ UNCHANGED setVars

\* m.mu.Lock()
ReaderLock ==
  /\ status = "running"
  /\ pc.reader = "locking"
  /\ mu = "free"
  /\ mu' = "reader"
  /\ pc' = [pc EXCEPT !.reader = "appending"]
  /\ UNCHANGED <<m, status, bg, message, nReads, wire, dialed, appended, nSpace, shown>>
  /\ UNCHANGED setVars

\* m.outputPane.SetContent(m.outputPane.View() + message), m being the copy
ReaderAppend ==
  /\ status = "running"
  /\ pc.reader = "appending"
  /\ bg' = [bg EXCEPT !.outputPane = AppendText(@, message)]
  /\ appended' = Append(appended, message)
  /\ pc' = [pc EXCEPT !.reader = "unlocking"]
  /\ UNCHANGED <<m, status, mu, message, nReads, wire, dialed, nSpace, shown>>
  /\ UNCHANGED setVars

\* m.mu.Unlock()
ReaderUnlock ==
  /\ status = "running"
  /\ pc.reader = "unlocking"
  /\ mu' = "free"
  /\ pc' = [pc EXCEPT !.reader = "reading"]
  /\ UNCHANGED <<m, status, bg, message, nReads, wire, dialed, appended, nSpace, shown>>
  /\ UNCHANGED setVars

\* ----------------------------------------------------------------- model.View
\* The event loop calls View on its model; no lock is taken.
RenderBegin ==
  /\ LoopIdle
  /\ pc' = [pc EXCEPT !.render = "reading"]
  /\ shown' = [shown EXCEPT !.valid = FALSE, !.after = Len(appended)]
  /\ UNCHANGED <<m, status, wire, nSpace>>
  /\ UNCHANGED netVars
  /\ UNCHANGED setVars

\* The output text of the frame: m.outputPane.View() of the loop's model
RenderedOutput == ViewportView(m.outputPane)

RenderEnd ==
  /\ status = "running"
  /\ pc.render = "reading"
  /\ pc' = [pc EXCEPT !.render = "idle"]
  /\ shown' = [shown EXCEPT !.valid = TRUE, !.text = RenderedOutput]
  /\ UNCHANGED <<m, status, wire, nSpace>>
  /\ UNCHANGED netVars
  /\ UNCHANGED setVars

\* The command pane in use: connecting, moving between the panes and their
\* items, and confirming; the server sends nothing.
DispatchNext ==
  \/ ProgramInit
  \/ Dial9001
  \/ Dial9002
  \/ KeyTab
  \/ KeyUp
  \/ KeyDown
  \/ KeyEnter

DispatchSpec == Init /\ [][DispatchNext]_vars

\* The output stream: connecting, the reader, the render pass and resizes.
StreamNext ==
  \/ ProgramInit
  \/ Dial9001
  \/ Dial9002
  \/ ReaderRead
  \/ ReaderStop
  \/ ReaderLock
  \/ ReaderAppend
  \/ ReaderUnlock
  \/ RenderBegin
  \/ RenderEnd
  \/ Resize

StreamSpec == Init /\ [][StreamNext]_vars

\* ------------------------------------------------------------------------- Set
\* The program's own variables, which a call on a Set leaves alone.
programVars == <<m, status, bg, pc, mu, message, nReads, wire, dialed, appended,
                 nSpace, shown>>

\* s.Add(value)
CallAdd ==
  /\ \E value \in Keys :
       /\ value = NaN => data[NaN] < MaxNaNEntries
       /\ data' = SetAdd(data, value)
       /\ lastCall' = [lastCall EXCEPT ![value] = "Add"]
  /\ UNCHANGED programVars

\* s.Remove(value)
CallRemove ==
  /\ \E value \in Keys :
       /\ data' = SetRemove(data, value)
       /\ lastCall' = [lastCall EXCEPT ![value] = "Remove"]
  /\ UNCHANGED programVars

\* A Set under any sequence of Add and Remove calls.
SetNext ==
  \/ CallAdd
  \/ CallRemove

SetSpec == Init /\ [][SetNext]_vars

\* ======================================================================= claims
\* The pane that has the focus is the command pane and its cursor is on label.
OnCommand(label) ==
  /\ m.focusIndex < N
  /\ ~m.topPanes[m.focusIndex].isMenu
  /\ CurrentLabel(m, m.focusIndex) = label

\* The labels of the command pane other than "Exit"
CommandLabels ==
  UNION {{PaneItems[i + 1][k] : k \in 1 .. Len(PaneItems[i + 1])} :
           i \in {j \in PaneIdx : ~PaneIsMenu[j + 1]}} \ {ExitLabel}

\* C1: in every reachable state focusIndex is in 0..N, pane i reports focused
\* exactly when i = focusIndex, and the output pane reports focused exactly
\* when focusIndex = N: exactly one of the N + 1 flags is true.
C1_FocusExclusive ==
  /\ m.focusIndex \in 0 .. N
  /\ \A i \in PaneIdx : m.topPanes[i].focused <=> (i = m.focusIndex)
  /\ m.outputPaneFocused <=> (m.focusIndex = N)
  /\ Cardinality({i \in PaneIdx : m.topPanes[i].focused})
       + (IF m.outputPaneFocused THEN 1 ELSE 0) = 1

\* C1 witness: the focus has gone round once (an item of the last pane was
\* toggled, the output pane was passed) and is back on pane 0 after a resize.
C1_Witness ==
  /\ m.focusIndex = 0
  /\ m.topPanes[0].focused
  /\ m.topPanes[N - 1].selected[1]
  /\ m.width = 40

\* C2: handling an event never aborts the process, and the process stops only
\* by the quit key or by enter on the command pane with the cursor on "Exit".
C2_NeverAborts ==
  [][ /\ status' # "panicked"
      /\ (status = "running" /\ status' # "running")
           => (KeyQ \/ (KeyEnter /\ OnCommand(ExitLabel))) ]_vars

\* C3: with the write connection opened by the connect step, enter on the
\* command pane with the cursor on a label other than "Exit" writes that label
\* and one newline on the write connection, once, and the process runs on.
C3_DispatchWrites ==
  \A label \in CommandLabels :
    (LoopIdle /\ bg.conn9001 = "open" /\ OnCommand(label))
      => LET r == UpdateEnter(m, TRUE)
         IN r.wrote = <<label, NL>> /\ r.cmd = "nil" /\ ~r.panic

\* s is a prefix of t
IsPrefix(s, t) == Len(s) <= Len(t) /\ SubSeq(t, 1, Len(s)) = s

\* chunk occurs whole in text
Contains(text, chunk) ==
  \E k \in 1 .. (Len(text) - Len(chunk) + 1) :
    SubSeq(text, k, k + Len(chunk) - 1) = chunk

\* The window of a viewport is unchanged by the step.
SameWindow(vp, vq) == vp.Height = vq.Height /\ vp.YOffset = vq.YOffset

C5_AppendedIsRendered ==
  shown.valid => \A i \in 1 .. shown.after : Contains(shown.text, appended[i])

\* C6: the render pass reads the output text, and the reader appends to it,
\* only while holding the lock.
C6_AccessUnderLock ==
  /\ pc.render = "reading" => mu = "render"
  /\ pc.reader = "appending" => mu = "reader"

\* C7: port 9001 is dialed first and port 9002 second, and when the dial of
\* port 9001 failed, port 9002 is never dialed and no reader is started.
C7_NoReadAfterWriteFailure ==
  /\ IsPrefix(dialed, <<"9001", "9002">>)
  /\ (Len(dialed) >= 1 /\ bg.conn9001 = "nil")
       => (dialed = <<"9001">> /\ pc.reader = "none")

\* C8: with the write connection absent after connecting, enter on the command
\* pane with the cursor on a label other than "Exit" writes nothing and
\* appends an error line to the output buffer.
C8_DegradedSendSurfacesError ==
  \A label \in CommandLabels, writeOk \in BOOLEAN :
    (LoopIdle /\ pc.connect = "done" /\ bg.conn9001 = "nil" /\ OnCommand(label))
      => LET r == UpdateEnter(m, writeOk)
         IN /\ r.wrote = <<>>
            /\ ~r.panic
            /\ r.model.outputPane.lines # m.outputPane.lines

\* C9: enter on the command pane with the cursor on "Exit" requests
\* termination and writes nothing on the write connection, whether the
\* connect step opened it or not.
C9_ExitQuitsWithoutWrite ==
  /\ [](\A writeOk \in BOOLEAN :
          OnCommand(ExitLabel)
            => LET r == UpdateEnter(m, writeOk)
               IN r.cmd = "Quit" /\ r.wrote = <<>> /\ ~r.panic)
  /\ [][(status = "running" /\ status' = "quit") => wire' = wire]_vars

\* C9 witness: the process has quit by Exit with the write connection open.
C9_Witness ==
  /\ status = "quit"
  /\ OnCommand(ExitLabel)
  /\ bg.conn9001 = "open"


\* focusIndex and every focus flag of a model
FocusState(mm) ==
  <<mm.focusIndex, [i \in PaneIdx |-> mm.topPanes[i].focused], mm.outputPaneFocused>>

RECURSIVE ReturnsAfter(_, _, _)
\* n more tabs take the focus state of cur to that of orig, and fewer do not.
ReturnsAfter(cur, orig, n) ==
  LET nx == UpdateTab(cur).model
  IN IF n = 1
     THEN FocusState(nx) = FocusState(orig)
     ELSE FocusState(nx) # FocusState(orig) /\ ReturnsAfter(nx, orig, n - 1)

\* C10: a tab moves focusIndex to (focusIndex + 1) mod (N + 1), and N + 1 tabs
\* in a row bring focusIndex and every focus flag back to what they were.
C10_CyclicAdvance ==
  LET r == UpdateTab(m)
  IN /\ ~r.panic
     /\ r.cmd = "nil"
     /\ r.model.focusIndex = (m.focusIndex + 1) % (N + 1)
     /\ ReturnsAfter(m, m, N + 1)

\* C10 witness: tabs have taken the focus past the last pane (one of its
\* items is selected) and the output pane, back to pane 0.
C10_Witness ==
  /\ m.focusIndex = 0
  /\ m.topPanes[N - 1].selected[2]
  /\ m.topPanes[1].selected[1]
  /\ m.topPanes[0].focused
  /\ ~m.outputPaneFocused

\* C11: the cursor of every list pane is an index of one of its items, and in
\* the focused list pane up on the first item and down on the last item leave
\* the cursor where it is.
C11_CursorInRange ==
  /\ \A i \in PaneIdx :
       Len(m.topPanes[i].labels) > 0
         => m.topPanes[i].index \in 0 .. (Len(m.topPanes[i].labels) - 1)
  /\ m.focusIndex < N =>
       LET p == m.topPanes[m.focusIndex]
           up == UpdateUpDown(m, "up")
           down == UpdateUpDown(m, "down")
       IN /\ ~up.panic /\ ~down.panic
          /\ p.index = 0 => up.model.topPanes[m.focusIndex].index = 0
          /\ p.index = Len(p.labels) - 1
               => down.model.topPanes[m.focusIndex].index = p.index
          /\ p.index > 0 => up.model.topPanes[m.focusIndex].index = p.index - 1
          /\ p.index < Len(p.labels) - 1
               => down.model.topPanes[m.focusIndex].index = p.index + 1

\* C11 witness: after a resize to the small window the cursors of pane 1 and
\* of the command pane are on their last items, and the last item of pane 1
\* was toggled there.
C11_Witness ==
  /\ m.height = 7
  /\ m.topPanes[2].index = Len(m.topPanes[2].labels) - 1
  /\ m.topPanes[1].index = Len(m.topPanes[1].labels) - 1
  /\ m.topPanes[1].selected[3]

\* The selected value of every item of every pane of a model
Selected(mm) == [i \in PaneIdx |-> mm.topPanes[i].selected]

\* C12: with a menu pane focused, one space flips the selected value of the
\* item at its cursor and a second space restores it, every other item being
\* as it was; with the command pane focused a space changes no selected value.
C12_TogglePair ==
  m.focusIndex < N =>
    LET i == m.focusIndex
        k == m.topPanes[i].index + 1
        r1 == UpdateSpace(m)
        r2 == UpdateSpace(r1.model)
    IN /\ ~r1.panic /\ ~r2.panic
       /\ m.topPanes[i].isMenu =>
            /\ Selected(r1.model) =
                 [Selected(m) EXCEPT ![i][k] = ~m.topPanes[i].selected[k]]
            /\ Selected(r2.model) = Selected(m)
            /\ r2.model = m
       /\ ~m.topPanes[i].isMenu => Selected(r1.model) = Selected(m)

\* C12 witness: two spaces have been handled, a menu pane is focused with its
\* cursor on its second item, and every item is unselected again.
C12_Witness ==
  /\ nSpace = 2
  /\ m.focusIndex = 1
  /\ m.topPanes[1].index = 1
  /\ \A i \in PaneIdx : \A k \in 1 .. Len(m.topPanes[i].selected) :
       ~m.topPanes[i].selected[k]

\* The cursor of every pane of a model
Cursors(mm) == [i \in PaneIdx |-> mm.topPanes[i].index]

\* C13: with the write connection opened by the connect step, an enter on the
\* command pane (cursor not on "Exit") whose write fails leaves the process
\* running, appends a diagnostic line to the output buffer, and changes no
\* focus state, cursor or selected value.
C13_WriteFailureSurfaced ==
  \A label \in CommandLabels :
    (LoopIdle /\ bg.conn9001 = "open" /\ OnCommand(label))
      => LET r == UpdateEnter(m, FALSE)
         IN /\ ~r.panic
            /\ r.cmd = "nil"
            /\ \E k \in 1 .. Len(r.model.outputPane.lines) :
                 Contains(r.model.outputPane.lines[k], Tail(ErrorText))
            /\ FocusState(r.model) = FocusState(m)
            /\ Cursors(r.model) = Cursors(m)
            /\ Selected(r.model) = Selected(m)

\* The dimensions a resize sets: the output pane's width and height and the
\* height of every list pane.
Dims(mm) ==
  [ outputWidth |-> mm.outputPane.Width,
    outputHeight |-> mm.outputPane.Height,
    paneHeight |-> [i \in PaneIdx |-> mm.topPanes[i].height] ]

\* What the dimensions are after a resize to (w, h), by the item counts alone.
DimsOf(w, h) ==
  [ outputWidth |-> w - 2,
    outputHeight |-> h \div 2,
    paneHeight |-> [i \in PaneIdx |-> Min((h \div 2) - 2, Len(PaneItems[i + 1]))] ]

\* C14: after a resize to (width, height) the dimensions are a function of
\* (width, height) and the item counts only, whatever the events and the
\* dimensions before it: output width = width - 2, output height = height / 2,
\* each list pane's height = min(height / 2 - 2, number of its items); and
\* the resize changes neither focusIndex nor any focused flag.
C14_ResizeDeterminism ==
  /\ \A sz \in Sizes :
       LET r == UpdateResize(m, sz[1], sz[2])
       IN /\ ~r.panic
          /\ r.cmd = "nil"
          /\ r.model.width = sz[1] /\ r.model.height = sz[2]
          /\ Dims(r.model) = DimsOf(sz[1], sz[2])
          /\ FocusState(r.model) = FocusState(m)
  /\ m.width # 0 => Dims(m) = DimsOf(m.width, m.height)

\* C14 happens: the small size was set after other events moved the focus to
\* the command pane, whose four items got the height 1.
C14_Witness ==
  /\ m.width = 40 /\ m.height = 7
  /\ m.focusIndex = 2
  /\ m.topPanes[2].height = 1
  /\ m.outputPane.Height = 3
  /\ m.topPanes[0].selected[1]

\* C15: q requests termination from every reachable state, whatever holds the
\* focus, changes no focus, cursor or selection state (nor anything else of
\* the model), and writes nothing on the write connection.
C15_QuitFromAnywhere ==
  LET r == UpdateQ(m)
  IN /\ ~r.panic
     /\ r.cmd = "Quit"
     /\ r.wrote = <<>>
     /\ FocusState(r.model) = FocusState(m)
     /\ Cursors(r.model) = Cursors(m)
     /\ Selected(r.model) = Selected(m)
     /\ r.model = m

\* C15 happens: the program has quit with the output pane focused, where only
\* q quits, after a cursor moved and an item was selected.
C15_Witness ==
  /\ status = "quit"
  /\ m.focusIndex = N
  /\ m.topPanes[1].index = 2
  /\ m.topPanes[1].selected[3]
  /\ wire = <<>>

\* The labels of every pane of a model
Labels(mm) == [i \in PaneIdx |-> mm.topPanes[i].labels]

\* C16: an item's selected value changes only by a space event while its menu
\* pane is focused and the item is at that pane's cursor; every other event
\* leaves every selected value unchanged; a toggle leaves the non-focused
\* panes unchanged; and no event changes a label.
C16_SelectedFrame ==
  [][ /\ Labels(m') = Labels(m)
      /\ Selected(m') # Selected(m) =>
           /\ LoopIdle
           /\ nSpace' = nSpace + 1
           /\ m.focusIndex < N
           /\ m.topPanes[m.focusIndex].isMenu
           /\ m' = UpdateSpace(m).model
           /\ Selected(m') =
                [Selected(m) EXCEPT ![m.focusIndex][m.topPanes[m.focusIndex].index + 1] = ~@]
           /\ \A j \in PaneIdx \ {m.focusIndex} : m'.topPanes[j] = m.topPanes[j]
    ]_vars

\* C16 happens: an item of pane 1 was toggled at its cursor, then the focus
\* moved on over the command pane, where a space event selected nothing.
C16_Witness ==
  /\ m.topPanes[1].selected[2]
  /\ m.focusIndex = 3
  /\ nSpace = 2
  /\ \A k \in 1 .. Len(m.topPanes[2].labels) : ~m.topPanes[2].selected[k]
  /\ \A k \in 1 .. Len(m.topPanes[3].labels) : ~m.topPanes[3].selected[k]

\* C17: an up or down event changes the cursor of the focused list pane only;
\* with the output pane focused it changes no list pane at all, and of the
\* output pane nothing but its scroll offset.
C17_CursorFrame ==
  \A key \in {"up", "down"} :
    LET r == UpdateUpDown(m, key)
    IN /\ ~r.panic
       /\ r.cmd = "nil"
       /\ \A j \in PaneIdx \ {m.focusIndex} : r.model.topPanes[j] = m.topPanes[j]
       /\ m.focusIndex < N =>
            r.model = [m EXCEPT !.topPanes[m.focusIndex].index =
                                   r.model.topPanes[m.focusIndex].index]
       /\ m.focusIndex = N =>
            /\ Cursors(r.model) = Cursors(m)
            /\ r.model = [m EXCEPT !.outputPane.YOffset = r.model.outputPane.YOffset]

\* C17 happens: the cursors of two panes were moved to different rows, each
\* while its pane had the focus, and the output pane has the focus now.
C17_Witness ==
  /\ m.focusIndex = N
  /\ m.topPanes[0].index = 2
  /\ m.topPanes[1].index = 0
  /\ m.topPanes[2].index = 1
  /\ m.topPanes[3].index = 0

\* C18: at most one reader ever exists: it is started once, by the dial of
\* port 9002 and only when that dial opened the connection; once it has seen
\* a read error it stays stopped, is not started again, and appends nothing
\* more to the output buffer.
C18_SingleReader ==
  /\ [](pc.reader # "none" => bg.conn9002 = "open")
  /\ [][ /\ (pc.reader = "none" /\ pc'.reader # "none") =>
              /\ pc.connect = "dial9002"
              /\ pc'.connect = "done"
              /\ pc'.reader = "reading"
              /\ bg'.conn9002 = "open"
              /\ dialed' = Append(dialed, "9002")
         /\ pc.reader # "none" => pc'.reader # "none"
         /\ pc.connect = "done" => pc'.connect = "done"
         /\ pc.reader = "stopped" =>
              /\ pc'.reader = "stopped"
              /\ appended' = appended
              /\ bg'.outputPane = bg.outputPane
              /\ nReads' = nReads
              /\ mu' = mu
    ]_vars

\* C18 happens: the reader appended a line, then saw a read error and
\* stopped, and the event loop went on (a resize was handled afterwards).
C18_Witness ==
  /\ pc.reader = "stopped"
  /\ pc.connect = "done"
  /\ Len(appended) = 1
  /\ m.height = 7

\* C19: in every reachable state the delegate of list pane i has focused =
\* true exactly when i = focusIndex; so a cursor marker is shown in at most
\* one list pane, the focused one at its cursor row, and in none while the
\* output pane is focused.
C19_DelegateFollowsFocus ==
  /\ \A i \in PaneIdx : m.topPanes[i].delegateFocused <=> (i = m.focusIndex)
  /\ Cardinality({i \in PaneIdx : CursorRows(m.topPanes[i]) # {}}) <= 1
  /\ \A i \in PaneIdx :
       CursorRows(m.topPanes[i]) =
         IF i = m.focusIndex THEN {m.topPanes[i].index} ELSE {}
  /\ m.focusIndex = N => \A i \in PaneIdx : CursorRows(m.topPanes[i]) = {}
  /\ LET t == UpdateTab(m).model
     IN \A i \in PaneIdx : t.topPanes[i].delegateFocused <=> (i = t.focusIndex)

\* C19 happens: the focus went through the panes to the output pane, the
\* cursor of the last pane having been moved, and no pane shows a marker.
C19_Witness ==
  /\ m.focusIndex = N
  /\ m.topPanes[3].index = 2
  /\ m.topPanes[0].index = 1
  /\ \A i \in PaneIdx : CursorRows(m.topPanes[i]) = {}

\* C20: for a Set made by NewSet and any sequence of Add and Remove calls,
\* Contains(v) is true exactly when the last Add or Remove call on v was an
\* Add (false when there was none); Add and Remove of v do not change
\* Contains(w) for another w; and both are idempotent.
C20_ContainsIffLastAdd ==
  /\ \A v \in Keys : SetContains(data, v) <=> (lastCall[v] = "Add")
  /\ \A v \in Keys : \A w \in Keys \ {v} :
       /\ SetContains(SetAdd(data, v), w) = SetContains(data, w)
       /\ SetContains(SetRemove(data, v), w) = SetContains(data, w)
  /\ \A v \in Keys : \A w \in Keys :
       /\ SetContains(SetAdd(SetAdd(data, v), v), w) = SetContains(SetAdd(data, v), w)
       /\ SetContains(SetRemove(SetRemove(data, v), v), w)
            = SetContains(SetRemove(data, v), w)

====
